---- MODULE Spec2Model ----
(***************************************************************************)
(* Model of docker/auth/auth.py: the auth-token codec, the repository-name *)
(* resolver, the hostname-normalised credential lookup, the "auths" parser *)
(* and the three-format configuration loader.                              *)
(*                                                                         *)
(* Strings are sequences of character codes (bytes), so that splitting,    *)
(* substring tests, replacement and base64 are computed, not assumed.      *)
(***************************************************************************)
EXTENDS Integers, Sequences, FiniteSets, TLC

VARIABLES
    \* codec
    auth_info,        \* argument of encode_auth
    auth,             \* the token encode_auth returned
    decoded,          \* what decode_auth made of it
    \* repository name resolver
    repo_name,        \* argument of resolve_repository_name
    repo_result,      \* its return value or the exception it raised
    \* auth resolver
    authconfig,       \* the store handed to resolve_authconfig
    registry,         \* its registry argument (None or a string)
    found,            \* its return value
    \* config loader
    pc,               \* position inside load_config
    config_path,      \* argument of load_config (None or a path)
    fs,               \* the filesystem: path -> file
    fileinput_state,  \* the module-global fileinput._state
    open_files,       \* paths of the file handles that are open
    attempts,         \* how each of the three attempts of this call ended
    outcome           \* how the last load_config call ended

codecVars  == <<auth_info, auth, decoded>>
repoVars   == <<repo_name, repo_result>>
lookupVars == <<authconfig, registry, found>>
loadVars   == <<pc, config_path, fs, fileinput_state, open_files, attempts, outcome>>
vars       == <<auth_info, auth, decoded, repo_name, repo_result, authconfig,
                registry, found, pc, config_path, fs, fileinput_state,
                open_files, attempts, outcome>>

----------------------------------------------------------------------------
(* Bounds of the model *)

MaxStrLen  == 2   \* longest username / password of the codec inputs
MaxFrags   == 3   \* most fragments of a repository name
MaxStore   == 2   \* most keys of a store handed to resolve_authconfig
MaxEntries == 2   \* most entries of an "auths" mapping in a file
MaxLines   == 2   \* most lines of a plain-text file

----------------------------------------------------------------------------
(* Strings *)

\* character codes
COLON == <<58>>                          \* ':'
SLASH == <<47>>                          \* '/'
DOT   == <<46>>                          \* '.'
SCHEME_MARK == <<58,47,47>>              \* '://'
HTTP  == <<104,116,116,112,58,47,47>>    \* 'http://'
HTTPS == <<104,116,116,112,115,58,47,47>> \* 'https://'
LOCALHOST == <<108,111,99,97,108,104,111,115,116>>  \* 'localhost'
K_auths == <<97,117,116,104,115>>        \* 'auths'
K_auth  == <<97,117,116,104>>            \* 'auth'
K_email == <<101,109,97,105,108>>        \* 'email'
K_username == <<117,115,101,114,110,97,109,101>>   \* 'username'
K_password == <<112,97,115,115,119,111,114,100>>   \* 'password'

\* INDEX_NAME = 'index.docker.io'
INDEX_NAME == <<105,110,100,101,120,46,100,111,99,107,101,114,46,105,111>>
\* INDEX_URL = 'https://{0}/v1/'.format(INDEX_NAME)
INDEX_URL == HTTPS \o INDEX_NAME \o <<47,118,49,47>>

None == [t |-> "none", s |-> <<>>, items |-> <<>>]

\* does sub occur in s at position i
MatchAt(sub, s, i) ==
    /\ i + Len(sub) - 1 <= Len(s)
    /\ \A j \in 1..Len(sub) : s[i + j - 1] = sub[j]

\* Python's `sub in s`
Contains(sub, s) == \E i \in 1..(Len(s) + 1) : MatchAt(sub, s, i)

\* Python's s.find(sub) + 1; 0 when absent
Find(sub, s) ==
    IF Contains(sub, s)
    THEN CHOOSE i \in 1..(Len(s) + 1) :
            /\ MatchAt(sub, s, i)
            /\ \A k \in 1..(i - 1) : ~MatchAt(sub, s, k)
    ELSE 0

\* Python's s.split(sep, 1): one part when sep is absent, else two
Split1(s, sep) ==
    LET i == Find(sep, s) IN
    IF i = 0 THEN <<s>>
    ELSE <<SubSeq(s, 1, i - 1), SubSeq(s, i + Len(sep), Len(s))>>

\* Python's s.replace(old, ''): leftmost non-overlapping occurrences removed
RECURSIVE Remove(_, _)
Remove(s, old) ==
    LET i == Find(old, s) IN
    IF i = 0 THEN s
    ELSE SubSeq(s, 1, i - 1) \o Remove(SubSeq(s, i + Len(old), Len(s)), old)

IsAscii(s) == \A i \in 1..Len(s) : s[i] < 128

\* all sequences over S of length at most n
RECURSIVE SeqsUpTo(_, _)
SeqsUpTo(S, n) ==
    IF n = 0 THEN {<<>>}
    ELSE LET shorter == SeqsUpTo(S, n - 1) IN
         shorter \cup {Append(q, x) : q \in shorter, x \in S}

\* concatenation of a sequence of strings
RECURSIVE Flatten(_)
Flatten(ss) == IF ss = <<>> THEN <<>> ELSE Head(ss) \o Flatten(Tail(ss))

----------------------------------------------------------------------------
(* Python dicts: a sequence of [k, v] items with distinct keys, in          *)
(* iteration order                                                          *)

Keys(d) == {d[i].k : i \in 1..Len(d)}
HasKey(d, key) == \E i \in 1..Len(d) : d[i].k = key
Lookup(d, key) == d[CHOOSE i \in 1..Len(d) : d[i].k = key].v
\* d[key] = val
DictSet(d, key, val) ==
    IF HasKey(d, key)
    THEN [i \in 1..Len(d) |-> IF d[i].k = key THEN [k |-> key, v |-> val] ELSE d[i]]
    ELSE Append(d, [k |-> key, v |-> val])

\* JSON values
JStr(s)   == [t |-> "str", s |-> s, items |-> <<>>]
JOther    == [t |-> "other", s |-> <<>>, items |-> <<>>]   \* null, number, list
JDict(it) == [t |-> "dict", s |-> <<>>, items |-> it]

----------------------------------------------------------------------------
(* Codec *)

\* the base64 alphabet: index -> character code
B64Char(i) ==
    IF i < 26 THEN 65 + i
    ELSE IF i < 52 THEN 97 + (i - 26)
    ELSE IF i < 62 THEN 48 + (i - 52)
    ELSE IF i = 62 THEN 43 ELSE 47

\* character code -> index, -1 outside the alphabet
B64Val(c) ==
    IF c >= 65 /\ c <= 90 THEN c - 65
    ELSE IF c >= 97 /\ c <= 122 THEN c - 97 + 26
    ELSE IF c >= 48 /\ c <= 57 THEN c - 48 + 52
    ELSE IF c = 43 THEN 62
    ELSE IF c = 47 THEN 63 ELSE -1

\* base64.b64encode
RECURSIVE b64encode(_)
b64encode(s) ==
    IF s = <<>> THEN <<>>
    ELSE LET n  == Len(s)
             b1 == IF n >= 2 THEN s[2] ELSE 0
             b2 == IF n >= 3 THEN s[3] ELSE 0
             v  == s[1] * 65536 + b1 * 256 + b2
         IN <<B64Char(v \div 262144),
              B64Char((v \div 4096) % 64),
              IF n >= 2 THEN B64Char((v \div 64) % 64) ELSE 61,
              IF n >= 3 THEN B64Char(v % 64) ELSE 61>>
            \o b64encode(SubSeq(s, 4, n))

\* base64.b64decode (not validating): characters outside the alphabet are
\* dropped, a complete pad sequence ends the input, an incomplete last
\* quantum is an error (binascii.Error, a ValueError)
RECURSIVE a2b_base64(_, _, _, _, _, _)
a2b_base64(s, i, quad, left, pads, out) ==
    IF i > Len(s)
    THEN IF quad # 0 THEN [ok |-> FALSE, val |-> <<>>] ELSE [ok |-> TRUE, val |-> out]
    ELSE IF s[i] = 61
    THEN IF quad >= 2 /\ quad + pads + 1 >= 4
         THEN [ok |-> TRUE, val |-> out]
         ELSE a2b_base64(s, i + 1, quad, left, pads + 1, out)
    ELSE IF B64Val(s[i]) < 0
    THEN a2b_base64(s, i + 1, quad, left, pads, out)
    ELSE LET v == B64Val(s[i]) IN
         IF quad = 0 THEN a2b_base64(s, i + 1, 1, v, 0, out)
         ELSE IF quad = 1
         THEN a2b_base64(s, i + 1, 2, v % 16, 0, Append(out, left * 4 + v \div 16))
         ELSE IF quad = 2
         THEN a2b_base64(s, i + 1, 3, v % 4, 0, Append(out, left * 16 + v \div 4))
         ELSE a2b_base64(s, i + 1, 0, 0, 0, Append(out, left * 64 + v))

b64decode(s) == a2b_base64(s, 1, 0, 0, 0, <<>>)

\* auth_info.get(key, '')
Get(d, key) == IF HasKey(d, key) THEN Lookup(d, key) ELSE <<>>

encode_auth(info) ==
    b64encode(Get(info, K_username) \o COLON \o Get(info, K_password))

Decoded(exc, login, pwd) == [exc |-> exc, login |-> login, pwd |-> pwd]

\* decode_auth: exc is "none" or the exception raised (binascii.Error and
\* the Unicode errors are ValueErrors)
decode_auth(a) ==
    IF a.t # "str" THEN Decoded("TypeError", <<>>, <<>>)          \* b64decode of a non-string
    ELSE IF ~IsAscii(a.s) THEN Decoded("ValueError", <<>>, <<>>)   \* auth.encode('ascii')
    ELSE LET s == b64decode(a.s) IN
         IF ~s.ok THEN Decoded("ValueError", <<>>, <<>>)           \* binascii.Error
         ELSE LET parts == Split1(s.val, COLON) IN
              IF Len(parts) < 2 THEN Decoded("ValueError", <<>>, <<>>)   \* unpacking
              ELSE IF ~IsAscii(parts[1]) \/ ~IsAscii(parts[2])
              THEN Decoded("ValueError", <<>>, <<>>)               \* .decode('ascii')
              ELSE Decoded("none", parts[1], parts[2])

----------------------------------------------------------------------------
(* Repository name resolver *)

Resolved(host, path) == [status |-> "returned", host |-> host, path |-> path]
InvalidRepository    == [status |-> "InvalidRepository", host |-> <<>>, path |-> <<>>]
Pending              == [status |-> "pending", host |-> <<>>, path |-> <<>>]

\* parts[0] of the split name looks like a registry host
HostLike(seg) == Contains(DOT, seg) \/ Contains(COLON, seg) \/ seg = LOCALHOST

\* resolve_repository_name without the check for the public index's name
resolve_repository_name_no_index_check(name) ==
    IF Contains(SCHEME_MARK, name) THEN InvalidRepository
    ELSE LET parts == Split1(name, SLASH) IN
         IF ~Contains(DOT, parts[1]) /\ ~Contains(COLON, parts[1])
            /\ parts[1] # LOCALHOST
         THEN Resolved(INDEX_NAME, name)
         ELSE IF Len(parts) < 2 THEN InvalidRepository
         ELSE Resolved(parts[1], parts[2])

\* resolve_repository_name returning the split name on the default index
resolve_repository_name_split_default(name) ==
    IF Contains(SCHEME_MARK, name) THEN InvalidRepository
    ELSE LET parts == Split1(name, SLASH) IN
         IF ~Contains(DOT, parts[1]) /\ ~Contains(COLON, parts[1])
            /\ parts[1] # LOCALHOST
         THEN Resolved(INDEX_NAME, parts[Len(parts)])
         ELSE IF Len(parts) < 2 THEN InvalidRepository
         ELSE IF Contains(INDEX_NAME, parts[1]) THEN InvalidRepository
         ELSE Resolved(parts[1], parts[2])

resolve_repository_name(name) ==
    IF Contains(SCHEME_MARK, name) THEN InvalidRepository
    ELSE LET parts == Split1(name, SLASH) IN
         IF ~Contains(DOT, parts[1]) /\ ~Contains(COLON, parts[1])
            /\ parts[1] # LOCALHOST
         THEN Resolved(INDEX_NAME, name)
         ELSE IF Len(parts) < 2 THEN InvalidRepository
         ELSE IF Contains(INDEX_NAME, parts[1]) THEN InvalidRepository
         ELSE Resolved(parts[1], parts[2])

----------------------------------------------------------------------------
(* Auth resolver *)

convert_to_hostname(url) == Split1(Remove(Remove(url, HTTP), HTTPS), SLASH)[1]

NotFound  == [status |-> "None", key |-> <<>>, config |-> <<>>]
Found(key, config) == [status |-> "found", key |-> key, config |-> config]
NotCalled == [status |-> "pending", key |-> <<>>, config |-> <<>>]

\* `registry` is falsy (None or '') or a non-empty string
Truthy(reg) == reg.t = "str" /\ reg.s # <<>>

\* the name resolve_authconfig looks for
LookupName(reg) == IF Truthy(reg) THEN convert_to_hostname(reg.s) ELSE INDEX_NAME

\* resolve_authconfig without the exact-match lookup
resolve_authconfig_scan_only(store, reg) ==
    LET name == LookupName(reg)
        hits == {i \in 1..Len(store) : convert_to_hostname(store[i].k) = name}
    IN IF hits # {}
       THEN LET first == CHOOSE i \in hits : \A j \in hits : i <= j
            IN Found(store[first].k, store[first].v)
       ELSE NotFound

resolve_authconfig(store, reg) ==
    LET name == LookupName(reg)
        hits == {i \in 1..Len(store) : convert_to_hostname(store[i].k) = name}
    IN IF HasKey(store, name) THEN Found(name, Lookup(store, name))
       ELSE IF hits # {}
       THEN LET first == CHOOSE i \in hits : \A j \in hits : i <= j
            IN Found(store[first].k, store[first].v)
       ELSE NotFound

----------------------------------------------------------------------------
(* Config parser *)

Parsed(exc, conf) == [exc |-> exc, conf |-> conf]

\* parse_entries recording the hostname instead of the key
RECURSIVE parse_entries_hostname(_, _, _)
parse_entries_hostname(items, i, conf) ==
    IF i > Len(items) THEN Parsed("none", conf)
    ELSE LET reg   == items[i].k
             entry == items[i].v
         IN IF entry.t # "dict" THEN Parsed("TypeError", <<>>)
            ELSE IF ~HasKey(entry.items, K_auth) THEN Parsed("KeyError", <<>>)
            ELSE LET d == decode_auth(Lookup(entry.items, K_auth)) IN
                 IF d.exc # "none" THEN Parsed(d.exc, <<>>)
                 ELSE IF ~HasKey(entry.items, K_email) THEN Parsed("KeyError", <<>>)
                 ELSE parse_entries_hostname(items, i + 1,
                        DictSet(conf, reg,
                                [username      |-> d.login,
                                 password      |-> d.pwd,
                                 email         |-> Lookup(entry.items, K_email),
                                 serveraddress |-> convert_to_hostname(reg)]))

\* one pass of the loop of parse_auth over items[i..], conf so far
RECURSIVE parse_entries(_, _, _)
parse_entries(items, i, conf) ==
    IF i > Len(items) THEN Parsed("none", conf)
    ELSE LET reg   == items[i].k
             entry == items[i].v
         IN IF entry.t # "dict" THEN Parsed("TypeError", <<>>)        \* entry['auth'] on a non-mapping
            ELSE IF ~HasKey(entry.items, K_auth) THEN Parsed("KeyError", <<>>)
            ELSE LET d == decode_auth(Lookup(entry.items, K_auth)) IN
                 IF d.exc # "none" THEN Parsed(d.exc, <<>>)
                 ELSE IF ~HasKey(entry.items, K_email) THEN Parsed("KeyError", <<>>)
                 ELSE parse_entries(items, i + 1,
                        DictSet(conf, reg,
                                [username      |-> d.login,
                                 password      |-> d.pwd,
                                 email         |-> Lookup(entry.items, K_email),
                                 serveraddress |-> reg]))

parse_auth(entries) ==
    IF entries.t # "dict" THEN Parsed("AttributeError", <<>>)         \* six.iteritems of a non-dict
    ELSE parse_entries(entries.items, 1, <<>>)

----------------------------------------------------------------------------
(* Files *)

ExplicitPath == "config_path"
HomeModern   == "~/.docker/config.json"     \* DOCKER_CONFIG_FILENAME under ~
HomeLegacy   == "~/.dockercfg"              \* LEGACY_DOCKER_CONFIG_FILENAME under ~
Paths        == {ExplicitPath, HomeModern, HomeLegacy}
NoPath       == "None"

\* A file: absent; present but open() fails; JSON text; any other text.
\* lines: what line.strip().split(' = ') makes of each line of the text.
\* A JSON text is read by fileinput as one line that holds no ' = '.
Absent      == [kind |-> "absent", doc |-> None, lines |-> <<>>]
Unreadable  == [kind |-> "unreadable", doc |-> None, lines |-> <<>>]
JsonFile(doc)   == [kind |-> "json", doc |-> doc, lines |-> << <<K_auths>> >>]
TextFile(lines) == [kind |-> "text", doc |-> None, lines |-> lines]

Exists(f) == f.kind # "absent"

\* the inputs: tokens, entries, mappings, documents, lines
GoodToken == encode_auth(<<[k |-> K_username, v |-> <<117>>],
                           [k |-> K_password, v |-> <<112>>]>>)      \* 'u:p'
BadToken  == b64encode(<<117, 112>>)                                  \* 'up': no colon
Mail      == <<101, 64, 120>>                                         \* 'e@x'
OtherKey  == <<72,116,116,112,72,101,97,100,101,114,115>>             \* 'HttpHeaders'
RegKeys   == {INDEX_NAME, HTTPS \o <<114,46,105,111>> \o <<47,118,49,47>>}  \* and 'https://r.io/v1/'

Field(key, val) == IF val = None THEN <<>> ELSE <<[k |-> key, v |-> val]>>
Entry(a, e)     == JDict(Field(K_auth, a) \o Field(K_email, e))

EntryPool ==
    { Entry(JStr(GoodToken), JStr(Mail)),     \* complete
      Entry(JStr(GoodToken), None),           \* no email
      Entry(None, JStr(Mail)),                \* no auth
      Entry(JStr(BadToken), JStr(Mail)),      \* token that does not decode
      Entry(JOther, JStr(Mail)),              \* auth that is not a string
      JOther }                                \* entry that is not a mapping

DistinctKeys(d) == \A i, j \in 1..Len(d) : d[i].k = d[j].k => i = j

Mappings ==
    {d \in SeqsUpTo({[k |-> r, v |-> e] : r \in RegKeys, e \in EntryPool}, MaxEntries) :
        DistinctKeys(d)}

GoodMapping == <<[k |-> INDEX_NAME, v |-> Entry(JStr(GoodToken), JStr(Mail))]>>

Docs ==
    {JOther}
    \cup {JDict(m) : m \in Mappings}
    \cup {JDict(<<[k |-> K_auths, v |-> JDict(m)]>>) : m \in Mappings}
    \cup {JDict(<<[k |-> K_auths, v |-> JOther]>>),
          JDict(<<[k |-> OtherKey, v |-> JOther]>>),
          JDict(<<[k |-> OtherKey, v |-> JOther], [k |-> K_auths, v |-> JDict(GoodMapping)]>>)}

LinePool == { <<K_auths>>,                 \* no ' = ' in the line
              <<K_auth, GoodToken>>,
              <<K_auth, BadToken>>,
              <<K_email, Mail>> }

Files ==
    {Absent, Unreadable}
    \cup {JsonFile(d) : d \in Docs}
    \cup {TextFile(l) : l \in SeqsUpTo(LinePool, MaxLines)}

----------------------------------------------------------------------------
(* Config loader: the bodies of the three attempts *)

Att(status, exc, conf) == [status |-> status, exc |-> exc, conf |-> conf]

\* the exceptions the first attempt catches: (IOError, KeyError, ValueError)
CaughtByModern(exc) == exc \in {"IOError", "KeyError", "ValueError"}

\* for section, data in six.iteritems(json.load(f)): skip every section
\* but 'auths', return parse_auth(data) at the first 'auths'
RECURSIVE ScanSections(_, _)
ScanSections(items, i) ==
    IF i > Len(items) THEN Att("failed", "no auths", <<>>)
    ELSE IF items[i].k # K_auths THEN ScanSections(items, i + 1)
    ELSE LET r == parse_auth(items[i].v) IN
         IF r.exc = "none" THEN Att("ok", "none", r.conf)
         ELSE IF CaughtByModern(r.exc) THEN Att("failed", r.exc, <<>>)
         ELSE Att("raised", r.exc, <<>>)

\* the body of `with open(config_file) as f` of the first attempt
ModernBody(f) ==
    IF f.kind # "json" THEN Att("failed", "ValueError", <<>>)          \* json.load
    ELSE IF f.doc.t # "dict" THEN Att("raised", "AttributeError", <<>>) \* six.iteritems
    ELSE ScanSections(f.doc.items, 1)

\* the body of the second attempt: return parse_auth(json.load(f)),
\* under `except Exception`
LegacyBody(f) ==
    IF f.kind # "json" THEN Att("failed", "ValueError", <<>>)
    ELSE LET r == parse_auth(f.doc) IN
         IF r.exc = "none" THEN Att("ok", "none", r.conf)
         ELSE Att("failed", r.exc, <<>>)

\* the lines the loop of the third attempt reads before it stops: all of
\* them, or those up to the first line without a second field
BadLines(lines) == {i \in 1..Len(lines) : Len(lines[i]) < 2}

\* the third attempt once fileinput has opened the file; leak: the loop was
\* left by an exception before fileinput reached the end of the file
PlainBody(f) ==
    IF BadLines(f.lines) # {}
    THEN [status |-> "failed", exc |-> "IndexError", conf |-> <<>>, leak |-> TRUE]
    ELSE LET data == [i \in 1..Len(f.lines) |-> f.lines[i][2]] IN
         IF Len(data) < 2
         THEN [status |-> "failed", exc |-> "InvalidConfigFile", conf |-> <<>>, leak |-> FALSE]
         ELSE LET d == decode_auth(JStr(data[1])) IN
              IF d.exc # "none"
              THEN [status |-> "failed", exc |-> d.exc, conf |-> <<>>, leak |-> FALSE]
              ELSE [status |-> "ok", exc |-> "none", leak |-> FALSE,
                    conf |-> DictSet(<<>>, INDEX_NAME,
                                [username      |-> d.login,
                                 password      |-> d.pwd,
                                 email         |-> JStr(data[2]),
                                 serveraddress |-> INDEX_URL])]

----------------------------------------------------------------------------
(* Config loader: load_config step by step *)

NotRun == [modern |-> "notrun", legacy |-> "notrun", plain |-> "notrun"]

NoOutcome          == [kind |-> "pending", exc |-> "none", conf |-> <<>>, via |-> "none"]
Returned(conf, via) == [kind |-> "returned", exc |-> "none", conf |-> conf, via |-> via]
Raised(exc)        == [kind |-> "raised", exc |-> exc, conf |-> <<>>, via |-> "none"]

\* config_path or os.path.join(os.path.expanduser('~'), DOCKER_CONFIG_FILENAME)
ModernPath(cp) == IF cp # NoPath THEN cp ELSE HomeModern
\* config_path or os.path.join(os.path.expanduser('~'), LEGACY_DOCKER_CONFIG_FILENAME)
LegacyPath(cp) == IF cp # NoPath THEN cp ELSE HomeLegacy

Handle(path, by) == [path |-> path, by |-> by]

\* the filesystems a call may find
FileSystems(cp) ==
    IF cp = NoPath
    THEN {[p \in Paths |-> IF p = HomeModern THEN m ELSE IF p = HomeLegacy THEN l ELSE Absent] :
            m \in Files, l \in Files}
    ELSE {[p \in Paths |-> IF p = cp THEN f ELSE Absent] : f \in Files}

\* load_config(config_path) is called
Call ==
    /\ pc = "idle"
    /\ \E cp \in {NoPath, ExplicitPath} : \E fsys \in FileSystems(cp) :
          /\ config_path' = cp
          /\ fs' = fsys
    /\ pc' = "modern"
    /\ attempts' = NotRun
    /\ outcome' = NoOutcome
    /\ UNCHANGED <<codecVars, repoVars, lookupVars, fileinput_state, open_files>>

\* first attempt: os.path.exists(config_file) is false
ModernMissing ==
    /\ pc = "modern"
    /\ ~Exists(fs[ModernPath(config_path)])
    /\ attempts' = [attempts EXCEPT !.modern = "skipped"]
    /\ pc' = "legacy"
    /\ UNCHANGED <<codecVars, repoVars, lookupVars, config_path, fs, fileinput_state, open_files, outcome>>

\* first attempt: open(config_file) raises IOError, which is caught
ModernOpenFails ==
    /\ pc = "modern"
    /\ fs[ModernPath(config_path)].kind = "unreadable"
    /\ attempts' = [attempts EXCEPT !.modern = "failed"]
    /\ pc' = "legacy"
    /\ UNCHANGED <<codecVars, repoVars, lookupVars, config_path, fs, fileinput_state, open_files, outcome>>

\* first attempt: open(config_file) succeeds
ModernOpen ==
    /\ pc = "modern"
    /\ fs[ModernPath(config_path)].kind \in {"json", "text"}
    /\ open_files' = open_files \cup {Handle(ModernPath(config_path), "with")}
    /\ pc' = "modern_parse"
    /\ UNCHANGED <<codecVars, repoVars, lookupVars, config_path, fs, fileinput_state, attempts, outcome>>

\* first attempt: the body of the with block; the block closes the file
ModernParse ==
    /\ pc = "modern_parse"
    /\ LET r == ModernBody(fs[ModernPath(config_path)]) IN
         /\ attempts' = [attempts EXCEPT !.modern = r.status]
         /\ outcome' = IF r.status = "ok" THEN Returned(r.conf, "modern")
                       ELSE IF r.status = "raised" THEN Raised(r.exc)
                       ELSE outcome
         /\ pc' = IF r.status = "failed" THEN "legacy" ELSE "done"
    /\ open_files' = open_files \ {Handle(ModernPath(config_path), "with")}
    /\ UNCHANGED <<codecVars, repoVars, lookupVars, config_path, fs, fileinput_state>>

\* LegacyMissing going on to the plain-text attempt
LegacyMissing_falls_through ==
    /\ pc = "legacy"
    /\ ~Exists(fs[LegacyPath(config_path)])
    /\ attempts' = [attempts EXCEPT !.legacy = "skipped"]
    /\ pc' = "plain"
    /\ UNCHANGED <<codecVars, repoVars, lookupVars, config_path, fs, fileinput_state, open_files, outcome>>

\* second attempt: the file does not exist: return {}
LegacyMissing ==
    /\ pc = "legacy"
    /\ ~Exists(fs[LegacyPath(config_path)])
    /\ attempts' = [attempts EXCEPT !.legacy = "skipped"]
    /\ outcome' = Returned(<<>>, "none")
    /\ pc' = "done"
    /\ UNCHANGED <<codecVars, repoVars, lookupVars, config_path, fs, fileinput_state, open_files>>

\* second attempt: open(config_file) raises, caught by `except Exception`
LegacyOpenFails ==
    /\ pc = "legacy"
    /\ fs[LegacyPath(config_path)].kind = "unreadable"
    /\ attempts' = [attempts EXCEPT !.legacy = "failed"]
    /\ pc' = "plain"
    /\ UNCHANGED <<codecVars, repoVars, lookupVars, config_path, fs, fileinput_state, open_files, outcome>>

\* second attempt: open(config_file) succeeds
LegacyOpen ==
    /\ pc = "legacy"
    /\ fs[LegacyPath(config_path)].kind \in {"json", "text"}
    /\ open_files' = open_files \cup {Handle(LegacyPath(config_path), "with")}
    /\ pc' = "legacy_parse"
    /\ UNCHANGED <<codecVars, repoVars, lookupVars, config_path, fs, fileinput_state, attempts, outcome>>

\* second attempt: the body of the with block; the block closes the file
LegacyParse ==
    /\ pc = "legacy_parse"
    /\ LET r == LegacyBody(fs[LegacyPath(config_path)]) IN
         /\ attempts' = [attempts EXCEPT !.legacy = r.status]
         /\ outcome' = IF r.status = "ok" THEN Returned(r.conf, "legacy") ELSE outcome
         /\ pc' = IF r.status = "ok" THEN "done" ELSE "plain"
    /\ open_files' = open_files \ {Handle(LegacyPath(config_path), "with")}
    /\ UNCHANGED <<codecVars, repoVars, lookupVars, config_path, fs, fileinput_state>>

\* third attempt: fileinput.input(config_file) while the module-global
\* state still holds an open file: RuntimeError('input() already active'),
\* caught; return {}
PlainInputActive ==
    /\ pc = "plain"
    /\ fileinput_state.file # NoPath
    /\ attempts' = [attempts EXCEPT !.plain = "failed"]
    /\ outcome' = Returned(<<>>, "none")
    /\ pc' = "done"
    /\ UNCHANGED <<codecVars, repoVars, lookupVars, config_path, fs, fileinput_state, open_files>>

\* third attempt: fileinput.input(config_file) installs a new global state
PlainInput ==
    /\ pc = "plain"
    /\ fileinput_state.file = NoPath
    /\ fileinput_state' = [file |-> NoPath]
    /\ pc' = "plain_open"
    /\ UNCHANGED <<codecVars, repoVars, lookupVars, config_path, fs, open_files, attempts, outcome>>

\* third attempt: the first read opens the file and fails (IOError, caught)
PlainOpenFails ==
    /\ pc = "plain_open"
    /\ fs[LegacyPath(config_path)].kind = "unreadable"
    /\ attempts' = [attempts EXCEPT !.plain = "failed"]
    /\ outcome' = Returned(<<>>, "none")
    /\ pc' = "done"
    /\ UNCHANGED <<codecVars, repoVars, lookupVars, config_path, fs, fileinput_state, open_files>>

\* third attempt: the first read opens the file
PlainOpen ==
    /\ pc = "plain_open"
    /\ fs[LegacyPath(config_path)].kind \in {"json", "text"}
    /\ fileinput_state' = [file |-> LegacyPath(config_path)]
    /\ open_files' = open_files \cup {Handle(LegacyPath(config_path), "fileinput")}
    /\ pc' = "plain_read"
    /\ UNCHANGED <<codecVars, repoVars, lookupVars, config_path, fs, attempts, outcome>>

\* third attempt: the loop over the lines and what follows it. fileinput
\* closes the file only when the loop reaches the end of the file.
PlainRead ==
    /\ pc = "plain_read"
    /\ LET r == PlainBody(fs[LegacyPath(config_path)]) IN
         /\ attempts' = [attempts EXCEPT !.plain = r.status]
         /\ outcome' = Returned(r.conf, IF r.status = "ok" THEN "plain" ELSE "none")
         /\ fileinput_state' = IF r.leak THEN fileinput_state ELSE [file |-> NoPath]
         /\ open_files' = IF r.leak THEN open_files
                          ELSE open_files \ {Handle(LegacyPath(config_path), "fileinput")}
    /\ pc' = "done"
    /\ UNCHANGED <<codecVars, repoVars, lookupVars, config_path, fs>>

\* the caller has the result; the locals of the call are gone
Finish ==
    /\ pc = "done"
    /\ pc' = "idle"
    /\ config_path' = NoPath
    /\ fs' = [p \in Paths |-> Absent]
    /\ attempts' = NotRun
    /\ outcome' = NoOutcome
    /\ UNCHANGED <<codecVars, repoVars, lookupVars, fileinput_state, open_files>>

\* what a call returns in a process where fileinput is not active
load_config(cp, fsys) ==
    LET mf == fsys[ModernPath(cp)]
        lf == fsys[LegacyPath(cp)]
        m  == IF ~Exists(mf) THEN Att("skipped", "none", <<>>)
              ELSE IF mf.kind = "unreadable" THEN Att("failed", "IOError", <<>>)
              ELSE ModernBody(mf)
        l  == IF lf.kind = "unreadable" THEN Att("failed", "IOError", <<>>)
              ELSE LegacyBody(lf)
    IN IF m.status = "ok" THEN Returned(m.conf, "modern")
       ELSE IF m.status = "raised" THEN Raised(m.exc)
       ELSE IF ~Exists(lf) THEN Returned(<<>>, "none")
       ELSE IF l.status = "ok" THEN Returned(l.conf, "legacy")
       ELSE IF lf.kind = "unreadable" THEN Returned(<<>>, "none")
       ELSE LET p == PlainBody(lf) IN
            Returned(p.conf, IF p.status = "ok" THEN "plain" ELSE "none")

LoadInit ==
    /\ pc = "idle"
    /\ config_path = NoPath
    /\ fs = [p \in Paths |-> Absent]
    /\ fileinput_state = [file |-> NoPath]
    /\ open_files = {}
    /\ attempts = NotRun
    /\ outcome = NoOutcome

----------------------------------------------------------------------------
(* The codec, the resolver and the lookup applied to their inputs *)

CodecBytes == {58, 117, 233}           \* ':', 'u' and a byte outside ASCII
CodecStrs  == SeqsUpTo(CodecBytes, MaxStrLen)
AuthInfos  ==
    {Field(K_username, u) \o Field(K_password, p) :
        u \in {JStr(x) : x \in CodecStrs} \cup {None},
        p \in {JStr(x) : x \in CodecStrs} \cup {None}}

NotDecoded == Decoded("pending", <<>>, <<>>)

\* auth_info holds the strings themselves
InfoOf(d) == [i \in 1..Len(d) |-> [k |-> d[i].k, v |-> d[i].v.s]]

Encode ==
    /\ auth = None
    /\ auth' = JStr(encode_auth(auth_info))
    /\ UNCHANGED <<auth_info, decoded, repoVars, lookupVars, loadVars>>

Decode ==
    /\ auth # None
    /\ decoded = NotDecoded
    /\ decoded' = decode_auth(auth)
    /\ UNCHANGED <<auth_info, auth, repoVars, lookupVars, loadVars>>

RepoFrags == {<<97>>, DOT, COLON, SLASH, LOCALHOST, INDEX_NAME}   \* 'a', '.', ':', '/', ...
RepoNames == {Flatten(q) : q \in SeqsUpTo(RepoFrags, MaxFrags)}

Resolve ==
    /\ repo_result = Pending
    /\ repo_result' = resolve_repository_name(repo_name)
    /\ UNCHANGED <<repo_name, codecVars, lookupVars, loadVars>>

\* registry keys: [scheme] [host] [path]
KeyPool ==
    {sch \o host \o path :
        sch  \in {<<>>, HTTP, HTTPS},
        host \in {<<>>, <<114,46,105,111>>, INDEX_NAME},
        path \in {<<>>, <<47,118,49,47>>}}

\* a credential record as parse_auth stores it under key
Cred(key) == [username |-> <<117>>, password |-> <<112>>,
              email |-> JStr(Mail), serveraddress |-> key]

Stores ==
    {d \in SeqsUpTo({[k |-> key, v |-> Cred(key)] : key \in KeyPool}, MaxStore) :
        DistinctKeys(d)}

ResolveAuth ==
    /\ found = NotCalled
    /\ found' = resolve_authconfig(authconfig, registry)
    /\ UNCHANGED <<authconfig, registry, codecVars, repoVars, loadVars>>

----------------------------------------------------------------------------
(* Specifications *)

CodecIdle  == auth_info = <<>> /\ auth = None /\ decoded = NotDecoded
RepoIdle   == repo_name = <<>> /\ repo_result = Pending
LookupIdle == authconfig = <<>> /\ registry = None /\ found = NotCalled

\* the loader
Init == CodecIdle /\ RepoIdle /\ LookupIdle /\ LoadInit
Next ==
    \/ Call
    \/ ModernMissing \/ ModernOpenFails \/ ModernOpen \/ ModernParse
    \/ LegacyMissing \/ LegacyOpenFails \/ LegacyOpen \/ LegacyParse
    \/ PlainInputActive \/ PlainInput \/ PlainOpenFails \/ PlainOpen \/ PlainRead
    \/ Finish
Spec == Init /\ [][Next]_vars

\* the codec on every auth_info
InitCodec ==
    /\ auth_info \in {InfoOf(d) : d \in AuthInfos}
    /\ auth = None /\ decoded = NotDecoded
    /\ RepoIdle /\ LookupIdle /\ LoadInit
NextCodec == Encode \/ Decode
SpecCodec == InitCodec /\ [][NextCodec]_vars

\* the repository name resolver on every name
InitRepo ==
    /\ repo_name \in RepoNames
    /\ repo_result = Pending
    /\ CodecIdle /\ LookupIdle /\ LoadInit
NextRepo == Resolve
SpecRepo == InitRepo /\ [][NextRepo]_vars

\* the auth resolver on every store and registry
InitLookup ==
    /\ authconfig \in Stores
    /\ registry \in {None} \cup {JStr(key) : key \in KeyPool}
    /\ found = NotCalled
    /\ CodecIdle /\ RepoIdle /\ LoadInit
NextLookup == ResolveAuth
SpecLookup == InitLookup /\ [][NextLookup]_vars

----------------------------------------------------------------------------
(* Properties of load_config (specification Spec) *)

Done == pc = "done"

\* the files the call in progress reads
ModernFile == fs[ModernPath(config_path)]
LegacyFile == fs[LegacyPath(config_path)]

\* the modern file holds a JSON object with an 'auths' section
HasAuths(f) == f.kind = "json" /\ f.doc.t = "dict" /\ HasKey(f.doc.items, K_auths)
Auths(f)    == Lookup(f.doc.items, K_auths)

\* C1: load_config never propagates an exception to its caller: whatever the
\* path and the files hold, the call returns a store.
C1_NeverRaises == Done => outcome.kind = "returned"

KeyedByAddress(conf) == \A i \in 1..Len(conf) : conf[i].v.serveraddress = conf[i].k

\* C3 as stated: in every store load_config returns, through any of the three
\* formats, each record's serveraddress equals its key.
C3_AddressIsKey == Done /\ outcome.kind = "returned" => KeyedByAddress(outcome.conf)

\* C3 amended: in every store returned through the modern or the legacy JSON
\* format (parse_auth) each record's serveraddress equals its key; a store
\* returned through the plain-text format holds one record, under the key
\* INDEX_NAME, whose serveraddress is INDEX_URL.
C3_AddressIsKeyJson ==
    /\ Done /\ outcome.via \in {"modern", "legacy"} => KeyedByAddress(outcome.conf)
    /\ Done /\ outcome.via = "plain" =>
          /\ Len(outcome.conf) = 1
          /\ outcome.conf[1].k = INDEX_NAME
          /\ outcome.conf[1].v.serveraddress = INDEX_URL

\* C3 witness: a plain-text file was loaded.
C3_Witness == Done /\ outcome.via = "plain" /\ Len(outcome.conf) = 1

\* C8: the store a call returns depends only on its config_path and on the
\* filesystem at that moment, never on earlier calls: it is what the same
\* call returns in a fresh process.
C8_Independent == Done => outcome = load_config(config_path, fs)

\* C9: every file load_config opens is closed when it returns: no file
\* handle is open once a call has returned.
C9_NoOpenHandle == pc \in {"done", "idle"} => open_files = {}

\* every entry of the mapping has an 'auth' field that holds a token that
\* decodes
AllAuthsDecode(m) ==
    /\ m.t = "dict"
    /\ \A i \in 1..Len(m.items) :
          /\ m.items[i].v.t = "dict"
          /\ HasKey(m.items[i].v.items, K_auth)
          /\ decode_auth(Lookup(m.items[i].v.items, K_auth)).exc = "none"

\* C10: parse_auth builds one record per key whenever every entry has an
\* 'auth' field with a decodable token, with or without an 'email' field, so
\* that a modern config whose entries have a valid auth is loaded.
C10_EmailOptional ==
    Done /\ HasAuths(ModernFile) /\ AllAuthsDecode(Auths(ModernFile)) =>
        /\ parse_auth(Auths(ModernFile)).exc = "none"
        /\ outcome.via = "modern"
        /\ Keys(outcome.conf) = Keys(Auths(ModernFile).items)

----------------------------------------------------------------------------
(* Properties of the codec (specification SpecCodec) *)

\* C4: for every username without a colon and every password,
\* decode_auth(encode_auth(u, p)) returns exactly (u, p).
C4_RoundTrip ==
    decoded # NotDecoded /\ ~Contains(COLON, Get(auth_info, K_username)) =>
        decoded = Decoded("none", Get(auth_info, K_username), Get(auth_info, K_password))

----------------------------------------------------------------------------
(* Properties of resolve_repository_name (specification SpecRepo) *)

FirstSegment(name) == Split1(name, SLASH)[1]

\* C5: InvalidRepository is raised exactly when the name contains '://', or
\* its first segment is host-like and the name has no '/', or its host-like
\* first segment contains 'index.docker.io'; every other name yields a pair.
C5_RaisesExactly ==
    repo_result # Pending =>
        LET seg    == FirstSegment(repo_name)
            raises == \/ Contains(SCHEME_MARK, repo_name)
                      \/ HostLike(seg) /\ ~Contains(SLASH, repo_name)
                      \/ HostLike(seg) /\ Contains(INDEX_NAME, seg)
        IN /\ raises <=> repo_result = InvalidRepository
           /\ ~raises <=> repo_result.status = "returned"

\* C5 witness: a host-qualified reference to the public index was rejected.
C5_Witness ==
    /\ repo_result = InvalidRepository
    /\ ~Contains(SCHEME_MARK, repo_name)
    /\ Contains(SLASH, repo_name)
    /\ Contains(INDEX_NAME, FirstSegment(repo_name))

\* C6: without '://', a name whose first segment is not host-like resolves
\* to (INDEX_NAME, the whole name); any other name that resolves yields
\* (first segment, rest) with first segment + '/' + rest = name.
C6_ResolvedPair ==
    /\ repo_result # Pending /\ ~Contains(SCHEME_MARK, repo_name)
       /\ ~HostLike(FirstSegment(repo_name)) =>
          repo_result = Resolved(INDEX_NAME, repo_name)
    /\ repo_result.status = "returned" /\ HostLike(FirstSegment(repo_name)) =>
          /\ repo_result.host = FirstSegment(repo_name)
          /\ repo_result.host \o SLASH \o repo_result.path = repo_name

\* C6 witness: a name with an explicit registry host was split.
C6_Witness ==
    /\ repo_result.status = "returned"
    /\ repo_result.host # INDEX_NAME
    /\ repo_result.path # <<>>

----------------------------------------------------------------------------
(* Properties of resolve_authconfig (specification SpecLookup) *)

\* the keys of the store, by position, that normalise to name
Matches(store, name) == {i \in 1..Len(store) : convert_to_hostname(store[i].k) = name}

\* what C7 says of a finished lookup for the normalised name
LookupAgrees(name) ==
    LET hits == Matches(authconfig, name) IN
    /\ HasKey(authconfig, name) => found = Found(name, Lookup(authconfig, name))
    /\ ~HasKey(authconfig, name) /\ hits # {} =>
          \E i \in hits :
              /\ \A j \in hits : i <= j
              /\ found = Found(authconfig[i].k, authconfig[i].v)
    /\ ~HasKey(authconfig, name) /\ hits = {} => found = NotFound
    /\ found.status = "found" <=> hits # {}

\* C7 as stated: registry is normalised to its hostname, the default index
\* host when it is absent; the record under that exact name is returned if
\* it is a key, else the first record in iteration order whose key normalises
\* to it, else None; so a record is returned iff some key normalises to it.
C7_Lookup ==
    found # NotCalled =>
        LookupAgrees(IF registry = None THEN INDEX_NAME
                     ELSE convert_to_hostname(registry.s))

\* C7 amended: as C7, with the default index host used when registry is
\* absent or the empty string.
C7_LookupEmptyIsAbsent ==
    found # NotCalled =>
        LookupAgrees(IF registry = None \/ registry.s = <<>> THEN INDEX_NAME
                     ELSE convert_to_hostname(registry.s))

\* C7 witness: no key is the registry's name itself, two keys normalise to
\* it, and the first of them was returned.
C7_Witness ==
    /\ found.status = "found"
    /\ registry # None /\ registry.s # <<>>
    /\ ~HasKey(authconfig, convert_to_hostname(registry.s))
    /\ Cardinality(Matches(authconfig, convert_to_hostname(registry.s))) >= 2
    /\ found.key = authconfig[1].k

====
